---- MODULE Spec2Model ----
(***************************************************************************)
(* A model of the asar archive codec of masroore/asar-python:              *)
(* src/asar/archive.py (AsarArchive), src/asar/asar_py.py (Asar, pack_asar)*)
(* and the batch patch of src/main.py (cmd_patch).                         *)
(*                                                                         *)
(* Strings of the program (entry names, archive paths, decimal offsets)    *)
(* are sequences of character codes, so that splitting, joining, sorting   *)
(* and int()/str() are computed as the code computes them.  A Python dict  *)
(* is a sequence of entries [name, info] in insertion order with distinct  *)
(* names; a header node is a record whose DOMAIN is the dict's key set, so *)
(* the code's tests '"files" in info' and '"offset" in info' read          *)
(* "files" \in DOMAIN info and "offset" \in DOMAIN info.                   *)
(***************************************************************************)
EXTENDS Integers, Sequences, FiniteSets, TLC

(***************************************************************************)
(* Characters and small helpers                                            *)
(***************************************************************************)
SLASH == 47

BACKSLASH == 92

DIGIT0 == 48

Min(a, b) == IF a < b THEN a ELSE b

\* None of Python
None == [none |-> TRUE]

\* a < b for Python str (code point lexicographic order)
RECURSIVE StrLess(_, _)
StrLess(s, t) ==
    IF s = <<>> THEN t # <<>>
    ELSE IF t = <<>> THEN FALSE
    ELSE IF Head(s) # Head(t) THEN Head(s) < Head(t)
    ELSE StrLess(Tail(s), Tail(t))

\* str(n) for n >= 0
RECURSIVE str(_)
str(n) == IF n < 10 THEN <<DIGIT0 + n>> ELSE str(n \div 10) \o <<DIGIT0 + (n % 10)>>

\* int(s) for a decimal string
RECURSIVE int(_)
int(s) ==
    IF Len(s) = 1 THEN s[1] - DIGIT0
    ELSE 10 * int(SubSeq(s, 1, Len(s) - 1)) + (s[Len(s)] - DIGIT0)

\* faulty variant: (i + m) & ~(m - 1), one step too far for a multiple of m
round_up_next(i, m) == LET x == i + m IN x - (x % m)

\* (i + m - 1) & ~(m - 1) for m a power of two: clear the low bits
round_up(i, m) == LET x == i + m - 1 IN x - (x % m)

\* f"{prefix}/{name}" if prefix else name
JoinPath(prefix, name) == IF prefix = <<>> THEN name ELSE prefix \o <<SLASH>> \o name

\* archive_path.replace("\\", "/")
normalize(p) == [i \in 1..Len(p) |-> IF p[i] = BACKSLASH THEN SLASH ELSE p[i]]

\* s.split("/")
RECURSIVE split(_, _)
split(s, cur) ==
    IF s = <<>> THEN <<cur>>
    ELSE IF Head(s) = SLASH THEN <<cur>> \o split(Tail(s), <<>>)
    ELSE split(Tail(s), Append(cur, Head(s)))

(***************************************************************************)
(* Python dicts as insertion-ordered entry sequences                       *)
(***************************************************************************)
IsDir(info) == "files" \in DOMAIN info

IsPacked(info) == ~IsDir(info) /\ "offset" \in DOMAIN info

\* files_dict.get(part)
RECURSIVE DictGet(_, _)
DictGet(d, part) ==
    IF d = <<>> THEN None
    ELSE IF Head(d).name = part THEN Head(d).info
    ELSE DictGet(Tail(d), part)

\* the dict json.loads builds from what json.dumps(sort_keys=True) wrote:
\* every mapping's keys in ascending order
RECURSIVE SortKeys(_)
SortKeys(d) ==
    SortSeq([i \in 1..Len(d) |->
                [name |-> d[i].name,
                 info |-> IF IsDir(d[i].info)
                          THEN [files |-> SortKeys(d[i].info.files)]
                          ELSE d[i].info]],
            LAMBDA x, y: StrLess(x.name, y.name))

\* len(json.dumps(v, sort_keys=True, separators=(",", ":"))) of a header
\* node; names are ASCII without characters that JSON escapes
RECURSIVE JsonLenDict(_)
RECURSIVE JsonLenNode(_)
JsonLenNode(info) ==
    IF IsDir(info) THEN 2 + 7 + 1 + JsonLenDict(info.files)
    ELSE IF "link" \in DOMAIN info THEN 2 + 6 + 1 + (Len(info.link) + 2)
    ELSE IF "offset" \in DOMAIN info
         THEN 2 + (8 + 1 + Len(info.offset) + 2) + 1 + (6 + 1 + Len(str(info.size)))
    ELSE 2 + (6 + 1 + Len(str(info.size))) + 1 + (10 + 1 + 4)

RECURSIVE JsonLenEntries(_)
JsonLenEntries(d) ==
    IF d = <<>> THEN 0
    ELSE (Len(Head(d).name) + 2) + 1 + JsonLenNode(Head(d).info)
         + (IF Len(d) > 1 THEN 1 ELSE 0) + JsonLenEntries(Tail(d))

JsonLenDict(d) == 2 + JsonLenEntries(d)

(***************************************************************************)
(* AsarArchive: the read-side helpers                                      *)
(***************************************************************************)
RECURSIVE walk_files(_, _)
walk_files(prefix, files_dict) ==
    IF files_dict = <<>> THEN <<>>
    ELSE LET name == Head(files_dict).name
             info == Head(files_dict).info
             path == JoinPath(prefix, name)
         IN (IF IsDir(info) THEN walk_files(path, info.files) ELSE <<path>>)
            \o walk_files(prefix, Tail(files_dict))

sorted(result) == SortSeq(result, StrLess)

\* faulty variant: the result is returned in walk order, the sort forgotten
list_files_unsorted(files) == walk_files(<<>>, files.files)

list_files(files) == sorted(walk_files(<<>>, files.files))

\* ArchiveListing._collect: one entry per node that is not a directory, the
\* items of each dict taken in sorted order of their names
RECURSIVE collect(_, _)
RECURSIVE collect_items(_, _)
collect_items(items, prefix) ==
    IF items = <<>> THEN <<>>
    ELSE LET name == Head(items).name
             info == Head(items).info
             path == JoinPath(prefix, name)
         IN (IF IsDir(info) THEN collect(info.files, path)
             ELSE <<[path |-> path,
                     size |-> IF "size" \in DOMAIN info THEN info.size ELSE 0,
                     unpacked |-> "offset" \notin DOMAIN info]>>)
            \o collect_items(Tail(items), prefix)

collect(files_dict, prefix) ==
    collect_items(SortSeq(files_dict, LAMBDA x, y : StrLess(x.name, y.name)), prefix)

RECURSIVE find_node(_, _)
find_node(node, parts) ==
    IF parts = <<>> THEN node
    ELSE IF ~IsDir(node) THEN None
    ELSE LET next == DictGet(node.files, Head(parts))
         IN IF next = None THEN None ELSE find_node(next, Tail(parts))

\* faulty variant: the final "it's a directory" test forgotten
find_file_dirs(files, archive_path) ==
    find_node(files, split(normalize(archive_path), <<>>))

find_file(files, archive_path) ==
    LET node == find_node(files, split(normalize(archive_path), <<>>))
    IN IF node = None THEN None
       ELSE IF IsDir(node) THEN None
       ELSE node

(***************************************************************************)
(* Files on disk.  An archive file is the 16-byte frame of four unsigned   *)
(* 32-bit integers, the JSON text of the header (held as the dict that     *)
(* json.loads builds from it, keys in text order, and as the text's length *)
(* in bytes), pad NUL bytes, and the data region.  Any other regular file  *)
(* is [bytes |-> ...].  Data bytes are never NUL.  A damaged archive file  *)
(* may carry len, the number of its bytes that are there (the file is cut  *)
(* short), and garbled, when its text is not JSON.                         *)
(***************************************************************************)
Absent == [absent |-> TRUE]

IsArchive(c) == "frame" \in DOMAIN c

IsRegular(c) == "frame" \in DOMAIN c \/ "bytes" \in DOMAIN c \/ "partial" \in DOMAIN c

TextLen(c) == c.textlen

FileLen(c) ==
    IF "len" \in DOMAIN c THEN c.len ELSE 16 + TextLen(c) + c.pad + Len(c.data)

\* asarfile.seek(pos); asarfile.read(n): the bytes from absolute position pos
\* (0-based), short at end of file; -2 stands for a byte of the frame, -1 for
\* a byte of the JSON text, 0 is a pad byte
read(c, pos, n) ==
    LET text_end == 16 + TextLen(c)
        data_start == text_end + c.pad
        file_len == FileLen(c)
        avail == IF file_len > pos THEN file_len - pos ELSE 0
    IN [i \in 1..Min(n, avail) |->
           LET at == pos + i - 1
           IN IF at < 16 THEN -2
              ELSE IF at < text_end THEN -1
              ELSE IF at < data_start THEN 0
              ELSE c.data[at - data_start + 1]]

data_size == 4

\* struct.pack("<4I", ...) + header_json_padded + data, as replace_file and
\* compress assemble it in buf
encode(header, data) ==
    LET header_string_size == JsonLenNode(header)
        aligned_size == round_up(header_string_size, data_size)
        header_size == aligned_size + 8
        header_object_size == aligned_size + data_size
        diff == aligned_size - header_string_size
    IN [frame |-> <<data_size, header_size, header_object_size, header_string_size>>,
        header |-> [files |-> SortKeys(header.files)],
        textlen |-> header_string_size,
        pad |-> diff,
        data |-> data]

\* AsarArchive.open on the content of a file: the archive object, or None
\* when reading the frame or parsing the JSON raises.  struct.unpack needs
\* bytes 4..7; the header read is header_size bytes from position 16 (to the
\* end of the file for -1, ValueError below that): the JSON text, then
\* whatever follows it; rstrip drops trailing NULs, and json.loads rejects a
\* text that is cut short, followed by anything else, or not JSON
open(filename, c) ==
    IF ~IsArchive(c) \/ FileLen(c) < 8 THEN None
    ELSE LET header_size == c.frame[2] - 8
             n == IF header_size = -1 THEN FileLen(c) ELSE header_size
             rest == read(c, 16 + TextLen(c), n - TextLen(c))
         IN IF \/ header_size < -1
               \/ n < TextLen(c)
               \/ FileLen(c) < 16 + TextLen(c)
               \/ \E i \in 1..Len(rest) : rest[i] # 0
               \/ "garbled" \in DOMAIN c
            THEN None
            ELSE [filename |-> filename, asarfile |-> c, files |-> c.header,
                  baseoffset |-> 16 + TextLen(c) + Len(rest)]

absolute_offset(a, offset) == int(offset) + a.baseoffset

\* __extract_file_to: the bytes written to dest_path
extract_file_to(a, fileinfo) ==
    read(a.asarfile, absolute_offset(a, fileinfo.offset), fileinfo.size)

(***************************************************************************)
(* AsarArchive.replace_file: the pure part                                 *)
(***************************************************************************)
\* faulty variant: the counter advances by the size the File had before the call
RECURSIVE recompute_offsets_oldsize(_, _, _, _, _)
recompute_offsets_oldsize(files_dict, replaced_path, new_size, counter, current_prefix) ==
    IF files_dict = <<>> THEN [files |-> <<>>, counter |-> counter]
    ELSE LET name == Head(files_dict).name
             info == Head(files_dict).info
             path == JoinPath(current_prefix, name)
             first ==
                 IF IsDir(info)
                 THEN LET r == recompute_offsets_oldsize(info.files, replaced_path,
                                                         new_size, counter, path)
                      IN [info |-> [info EXCEPT !.files = r.files], counter |-> r.counter]
                 ELSE IF "offset" \in DOMAIN info
                 THEN LET size == IF path = replaced_path THEN new_size ELSE info.size
                      IN [info |-> [info EXCEPT !.size = size, !.offset = str(counter)],
                          counter |-> counter + info.size]
                 ELSE [info |-> info, counter |-> counter]
             rest == recompute_offsets_oldsize(Tail(files_dict), replaced_path, new_size,
                                               first.counter, current_prefix)
         IN [files |-> <<[name |-> name, info |-> first.info]>> \o rest.files,
             counter |-> rest.counter]

\* faulty variant: the new size is recorded for the replaced path also when the
\* node has no offset
RECURSIVE recompute_offsets_anynode(_, _, _, _, _)
recompute_offsets_anynode(files_dict, replaced_path, new_size, counter, current_prefix) ==
    IF files_dict = <<>> THEN [files |-> <<>>, counter |-> counter]
    ELSE LET name == Head(files_dict).name
             info == Head(files_dict).info
             path == JoinPath(current_prefix, name)
             first ==
                 IF IsDir(info)
                 THEN LET r == recompute_offsets_anynode(info.files, replaced_path, new_size,
                                                 counter, path)
                      IN [info |-> [info EXCEPT !.files = r.files], counter |-> r.counter]
                 ELSE IF "offset" \in DOMAIN info
                 THEN LET size == IF path = replaced_path THEN new_size ELSE info.size
                      IN [info |-> [info EXCEPT !.size = size, !.offset = str(counter)],
                          counter |-> counter + size]
                 ELSE IF path = replaced_path /\ "size" \in DOMAIN info
                 THEN [info |-> [info EXCEPT !.size = new_size], counter |-> counter]
                 ELSE [info |-> info, counter |-> counter]
             rest == recompute_offsets_anynode(Tail(files_dict), replaced_path, new_size,
                                       first.counter, current_prefix)
         IN [files |-> <<[name |-> name, info |-> first.info]>> \o rest.files,
             counter |-> rest.counter]

\* __recompute_offsets mutates files_dict and counter[0] in place; here it
\* returns both
RECURSIVE recompute_offsets(_, _, _, _, _)
recompute_offsets(files_dict, replaced_path, new_size, counter, current_prefix) ==
    IF files_dict = <<>> THEN [files |-> <<>>, counter |-> counter]
    ELSE LET name == Head(files_dict).name
             info == Head(files_dict).info
             path == JoinPath(current_prefix, name)
             first ==
                 IF IsDir(info)
                 THEN LET r == recompute_offsets(info.files, replaced_path, new_size,
                                                 counter, path)
                      IN [info |-> [info EXCEPT !.files = r.files], counter |-> r.counter]
                 ELSE IF "offset" \in DOMAIN info
                 THEN LET size == IF path = replaced_path THEN new_size ELSE info.size
                      IN [info |-> [info EXCEPT !.size = size, !.offset = str(counter)],
                          counter |-> counter + size]
                 ELSE [info |-> info, counter |-> counter]
             rest == recompute_offsets(Tail(files_dict), replaced_path, new_size,
                                       first.counter, current_prefix)
         IN [files |-> <<[name |-> name, info |-> first.info]>> \o rest.files,
             counter |-> rest.counter]

update_offsets(files, replaced_path, new_size) ==
    [files |-> recompute_offsets(files.files, replaced_path, new_size, 0, <<>>).files]

\* faulty variant: the copy seeks to the relative offset, the base offset forgotten
RECURSIVE write_file_data_nobase(_, _, _, _, _)
write_file_data_nobase(a, old_files, replaced_path, new_data, prefix) ==
    IF old_files = <<>> THEN <<>>
    ELSE LET name == Head(old_files).name
             old_info == Head(old_files).info
             path == JoinPath(prefix, name)
             first ==
                 IF IsDir(old_info)
                 THEN write_file_data_nobase(a, old_info.files, replaced_path, new_data, path)
                 ELSE IF "offset" \in DOMAIN old_info
                 THEN IF path = replaced_path THEN new_data
                      ELSE read(a.asarfile, int(old_info.offset), old_info.size)
                 ELSE <<>>
         IN first \o write_file_data_nobase(a, Tail(old_files), replaced_path, new_data,
                                            prefix)

\* _write_file_data: the bytes appended to buf, walking the ORIGINAL header
RECURSIVE write_file_data(_, _, _, _, _)
write_file_data(a, old_files, replaced_path, new_data, prefix) ==
    IF old_files = <<>> THEN <<>>
    ELSE LET name == Head(old_files).name
             old_info == Head(old_files).info
             path == JoinPath(prefix, name)
             first ==
                 IF IsDir(old_info)
                 THEN write_file_data(a, old_info.files, replaced_path, new_data, path)
                 ELSE IF "offset" \in DOMAIN old_info
                 THEN IF path = replaced_path THEN new_data
                      ELSE read(a.asarfile, absolute_offset(a, old_info.offset),
                                old_info.size)
                 ELSE <<>>
         IN first \o write_file_data(a, Tail(old_files), replaced_path, new_data, prefix)

\* lines 118-149: the new archive assembled in buf
replace_buf(a, archive_path, new_data) ==
    encode(update_offsets(a.files, archive_path, Len(new_data)),
           write_file_data(a, a.files.files, archive_path, new_data, <<>>))

(***************************************************************************)
(* Directories on disk.  A directory is [dir |-> entries], entries a set   *)
(* of [name, node] with distinct names; a symlink is [symlink |-> target]. *)
(* A path below a directory is a sequence of segments.                     *)
(***************************************************************************)
DOT == <<46>>

IsDirectory(node) == "dir" \in DOMAIN node

\* what the operating system makes of a relative path: "." segments vanish
Resolve(segs) == SelectSeq(segs, LAMBDA seg : seg # DOT)

\* the node at a path below node, or Absent
RECURSIVE FsGet(_, _)
FsGet(node, segs) ==
    IF segs = <<>> THEN node
    ELSE IF ~IsDirectory(node) THEN Absent
    ELSE LET hit == {e \in node.dir : e.name = Head(segs)}
         IN IF hit = {} THEN Absent
            ELSE FsGet((CHOOSE e \in hit : TRUE).node, Tail(segs))

\* node with the content at a path below it set; the directories above the
\* path are made when they are missing (os.makedirs); a file is only ever
\* written below a directory that was made first
RECURSIVE FsSet(_, _, _)
FsSet(node, segs, content) ==
    IF segs = <<>> THEN content
    ELSE LET entries == IF IsDirectory(node) THEN node.dir ELSE {}
             old == {e \in entries : e.name = Head(segs)}
             child == IF old = {} THEN Absent ELSE (CHOOSE e \in old : TRUE).node
         IN [dir |-> (entries \ old)
                     \cup {[name |-> Head(segs),
                            node |-> FsSet(child, Tail(segs), content)]}]

\* sorted(directory.iterdir()): the entries in ascending order of name
RECURSIVE sorted_iterdir(_)
sorted_iterdir(entries) ==
    IF entries = {} THEN <<>>
    ELSE LET least == CHOOSE e \in entries :
                          \A o \in entries \ {e} : StrLess(e.name, o.name)
         IN <<least>> \o sorted_iterdir(entries \ {least})

(***************************************************************************)
(* Asar.compress and pack_asar                                             *)
(***************************************************************************)
\* faulty variant: the running offset is not advanced past a file
RECURSIVE dir_entries_nooffset(_, _)
dir_entries_nooffset(listing, offset) ==
    IF listing = <<>> THEN [files |-> <<>>, offset |-> offset, data |-> <<>>]
    ELSE LET entry == Head(listing)
             first ==
                 IF "symlink" \in DOMAIN entry.node
                 THEN [info |-> [link |-> entry.node.symlink], offset |-> offset,
                       data |-> <<>>]
                 ELSE IF IsDirectory(entry.node)
                 THEN LET r == dir_entries_nooffset(sorted_iterdir(entry.node.dir), offset)
                      IN [info |-> [files |-> r.files], offset |-> r.offset,
                          data |-> r.data]
                 ELSE LET size == Len(entry.node.bytes)
                      IN [info |-> [size |-> size, offset |-> str(offset)],
                          offset |-> offset, data |-> entry.node.bytes]
             rest == dir_entries_nooffset(Tail(listing), first.offset)
         IN [files |-> <<[name |-> entry.name, info |-> first.info]>> \o rest.files,
             offset |-> rest.offset,
             data |-> first.data \o rest.data]

\* the loop of _dir_to_dict over the sorted listing of one directory: the
\* dict built, the running offset after it, and the bytes of the files
\* appended to file_paths, in that order
RECURSIVE dir_entries(_, _)
dir_entries(listing, offset) ==
    IF listing = <<>> THEN [files |-> <<>>, offset |-> offset, data |-> <<>>]
    ELSE LET entry == Head(listing)
             first ==
                 IF "symlink" \in DOMAIN entry.node
                 THEN [info |-> [link |-> entry.node.symlink], offset |-> offset,
                       data |-> <<>>]
                 ELSE IF IsDirectory(entry.node)
                 THEN LET r == dir_entries(sorted_iterdir(entry.node.dir), offset)
                      IN [info |-> [files |-> r.files], offset |-> r.offset,
                          data |-> r.data]
                 ELSE LET size == Len(entry.node.bytes)
                      IN [info |-> [size |-> size, offset |-> str(offset)],
                          offset |-> offset + size, data |-> entry.node.bytes]
             rest == dir_entries(Tail(listing), first.offset)
         IN [files |-> <<[name |-> entry.name, info |-> first.info]>> \o rest.files,
             offset |-> rest.offset,
             data |-> first.data \o rest.data]

dir_to_dict(directory) == dir_entries(sorted_iterdir(directory.dir), 0)

\* Asar.compress(path): the bytes of the in-memory archive
compress(root) ==
    LET packed == dir_to_dict(root)
    IN encode([files |-> packed.files], packed.data)

(***************************************************************************)
(* The state of a run                                                      *)
(***************************************************************************)
VARIABLES
    disk,      \* path -> content of the file there, or Absent
    disk0,     \* the disk when the run began
    a,         \* the open AsarArchive object, or None
    pc,        \* "pack", "start", "opened", "called", "done"
    call,      \* the call made on the object and its arguments
    outcome,   \* "none", "ok", or the exception the call raised
    ret,       \* what the call returned
    handles    \* the paths a file object returned by open(path, "rb") in
               \* AsarArchive.open / Asar.open is still open on; with two
               \* writing processes, their file objects

vars == <<disk, disk0, a, pc, call, outcome, ret, handles>>

\* self.filename + ".unpacked"
Unpacked(p) == p \o ".unpacked"

(***************************************************************************)
(* Extraction of a whole archive: AsarArchive.extract and Asar.extract     *)
(***************************************************************************)
\* faulty variant: the destination file is created before the copy is looked for
copy_extracted_create(self, path, fs) ==
    LET unpacked_dir == disk[Unpacked(self.filename)]
        source_path == FsGet(unpacked_dir, Resolve(path))
    IN FsSet(fs, Resolve(path),
             IF source_path = Absent THEN [bytes |-> <<>>] ELSE source_path)

\* __copy_extracted: without the <archive>.unpacked directory, or without the
\* file in it, the entry is skipped with a warning
copy_extracted(self, path, fs) ==
    LET unpacked_dir == disk[Unpacked(self.filename)]
    IN IF ~IsDirectory(unpacked_dir) THEN fs
       ELSE LET source_path == FsGet(unpacked_dir, Resolve(path))
            IN IF source_path = Absent THEN fs
               ELSE FsSet(fs, Resolve(path), source_path)

\* __extract_file: fs is the tree at the destination
extract_file(self, path, fileinfo, fs) ==
    IF "offset" \notin DOMAIN fileinfo THEN copy_extracted(self, path, fs)
    ELSE FsSet(fs, Resolve(path), [bytes |-> extract_file_to(self, fileinfo)])

RECURSIVE extract_directory(_, _, _, _)
RECURSIVE extract_items(_, _, _, _)
\* the loop of __extract_directory over files.items()
extract_items(self, path, files, fs) ==
    IF files = <<>> THEN fs
    ELSE LET name == Head(files).name
             contents == Head(files).info
             item_path == Append(path, name)
             first == IF IsDir(contents)
                      THEN extract_directory(self, item_path, contents.files, fs)
                      ELSE extract_file(self, item_path, contents, fs)
         IN extract_items(self, path, Tail(files), first)

\* __extract_directory
extract_directory(self, path, files, fs) ==
    LET made == IF FsGet(fs, Resolve(path)) = Absent
                THEN FsSet(fs, Resolve(path), [dir |-> {}])
                ELSE fs
    IN extract_items(self, path, files, made)

\* Asar.open on the content of a file, or None when it raises:
\* struct.unpack needs the 16 bytes of the frame, json.loads the whole text
\* and nothing more
Asar_open(path, c) ==
    IF ~IsArchive(c) \/ FileLen(c) < 16 THEN None
    ELSE LET header_string_size == c.frame[4]
         IN IF \/ header_string_size # TextLen(c)
               \/ FileLen(c) < 16 + TextLen(c)
               \/ "garbled" \in DOMAIN c
            THEN None
            ELSE [path |-> path, fp |-> c, header |-> c.header,
                  base_offset |-> round_up(16 + header_string_size, 4)]

\* Asar._copy_unpacked_file
Asar_copy_unpacked_file(self, source, fs) ==
    LET unpacked_dir == disk[Unpacked(self.path)]
    IN IF ~IsDirectory(unpacked_dir) THEN fs
       ELSE LET src == FsGet(unpacked_dir, Resolve(source))
            IN IF src = Absent THEN fs
               ELSE FsSet(fs, Resolve(source), src)

\* Asar._extract_file
Asar_extract_file(self, source, info, fs) ==
    IF "offset" \notin DOMAIN info THEN Asar_copy_unpacked_file(self, source, fs)
    ELSE FsSet(fs, Resolve(source),
               [bytes |-> read(self.fp, self.base_offset + int(info.offset), info.size)])

\* Asar._extract_link: a symlink to destination / link
Asar_extract_link(source, link, fs) == FsSet(fs, Resolve(source), [symlink |-> link])

RECURSIVE Asar_extract_directory(_, _, _, _)
RECURSIVE Asar_extract_items(_, _, _, _)
\* the loop of Asar._extract_directory over files.items()
Asar_extract_items(self, source, files, fs) ==
    IF files = <<>> THEN fs
    ELSE LET name == Head(files).name
             info == Head(files).info
             item_path == Append(source, name)
             first == IF IsDir(info)
                      THEN Asar_extract_directory(self, item_path, info.files, fs)
                      ELSE IF "link" \in DOMAIN info
                      THEN Asar_extract_link(item_path, info.link, fs)
                      ELSE Asar_extract_file(self, item_path, info, fs)
         IN Asar_extract_items(self, source, Tail(files), first)

\* Asar._extract_directory: mkdir(parents=True, exist_ok=True), then the loop
Asar_extract_directory(self, source, files, fs) ==
    LET made == IF IsDirectory(FsGet(fs, Resolve(source))) THEN fs
                ELSE FsSet(fs, Resolve(source), [dir |-> {}])
    IN Asar_extract_items(self, source, files, made)

(***************************************************************************)
(* The input universe: bounded headers and the archives holding them       *)
(***************************************************************************)
MaxNodes == 3

MaxSize == 2

NameA == <<97>>

NameB == <<98>>

NameAB == <<97, 45, 98>>

RootNames == {NameA, NameAB}

KidNames == {NameA, NameB}

\* packed File, unpacked File, Symlink (offsets are assigned by Layout)
Leaves ==
    {[size |-> s, offset |-> <<DIGIT0>>] : s \in 1..MaxSize}
    \cup {[size |-> 1, unpacked |-> TRUE], [link |-> NameB]}

RECURSIVE Nodes(_)
Nodes(d) ==
    IF d = <<>> THEN 0
    ELSE 1 + (IF IsDir(Head(d).info) THEN Nodes(Head(d).info.files) ELSE 0)
         + Nodes(Tail(d))

\* every dict of at most n nodes in all, nested at most depth deep, in every
\* key order
RECURSIVE Dicts(_, _, _)
Dicts(names, n, depth) ==
    IF n = 0 THEN {<<>>}
    ELSE {<<>>} \cup UNION {
           LET firsts == Leaves \cup
                   (IF depth > 0
                    THEN {[files |-> k] : k \in Dicts(KidNames, n - 1, depth - 1)}
                    ELSE {})
           IN UNION {{<<[name |-> nm, info |-> i]>> \o d :
                         d \in Dicts(names \ {nm},
                                     n - 1 - (IF IsDir(i) THEN Nodes(i.files) ELSE 0),
                                     depth)} : i \in firsts}
         : nm \in names}

\* a foreign packer's layout: offsets sequential in the walk order of the
\* header's own key order
RECURSIVE Layout(_, _)
Layout(d, counter) ==
    IF d = <<>> THEN [files |-> <<>>, counter |-> counter]
    ELSE LET info == Head(d).info
             first ==
                 IF IsDir(info)
                 THEN LET r == Layout(info.files, counter)
                      IN [info |-> [files |-> r.files], counter |-> r.counter]
                 ELSE IF "offset" \in DOMAIN info
                 THEN [info |-> [info EXCEPT !.offset = str(counter)],
                       counter |-> counter + info.size]
                 ELSE [info |-> info, counter |-> counter]
             rest == Layout(Tail(d), first.counter)
         IN [files |-> <<[name |-> Head(d).name, info |-> first.info]>> \o rest.files,
             counter |-> rest.counter]

\* the archive a packer writes for dict d: every data byte is distinct (its
\* own position), the header text keeps d's key order unless resort
MakeArchive(d, resort) ==
    LET l == Layout(d, 0)
        e == encode([files |-> l.files], [i \in 1..l.counter |-> i])
    IN IF resort THEN e ELSE [e EXCEPT !.header = [files |-> l.files]]

InputArchives ==
    {MakeArchive(d, r) : d \in Dicts(RootNames, MaxNodes, 1), r \in BOOLEAN}

\* the contents of the files of a source tree: one per size, no NUL byte
FileContents == {[i \in 1..n |-> 10 * n + i] : n \in 0..MaxSize}

RECURSIVE TreeNodes(_)
TreeNodes(entries) ==
    IF entries = {} THEN 0
    ELSE LET e == CHOOSE x \in entries : TRUE
         IN 1 + (IF IsDirectory(e.node) THEN TreeNodes(e.node.dir) ELSE 0)
            + TreeNodes(entries \ {e})

\* every directory listing of at most n nodes in all over the names, nested
\* at most depth deep: regular files and subdirectories
RECURSIVE Trees(_, _, _)
Trees(names, n, depth) ==
    IF n = 0 \/ names = {} THEN {{}}
    ELSE LET nm == CHOOSE x \in names : TRUE
             firsts == {[bytes |-> c] : c \in FileContents} \cup
                       (IF depth > 0
                        THEN {[dir |-> k] : k \in Trees(KidNames, n - 1, depth - 1)}
                        ELSE {})
         IN Trees(names \ {nm}, n, depth) \cup UNION {
              {{[name |-> nm, node |-> nd]} \cup t :
                  t \in Trees(names \ {nm},
                              n - 1 - (IF IsDirectory(nd) THEN TreeNodes(nd.dir) ELSE 0),
                              depth)}
              : nd \in firsts}

SourceTrees == {[dir |-> t] : t \in Trees(RootNames, MaxNodes, 1)}

\* candidate archive paths of a call
ArchivePaths ==
    {NameA, NameAB, NameB, <<>>}
    \cup {NameA \o <<SLASH>> \o k : k \in KidNames}
    \cup {NameA \o <<BACKSLASH>> \o NameB, NameAB \o <<SLASH>> \o NameA}

NewByte == 200

BigLen == 12

(***************************************************************************)
(* The file system and one run of the library: open, one call, close       *)
(***************************************************************************)
ARCHIVE == "app.asar"

OUTPUT == "out.asar"

Tmp(p) == p \o ".tmp"

DESTDIR == "outdir"

DEST == "outdir/file"

\* the directory pack_asar packs, and the destination of a whole extraction
SOURCEDIR == "srcdir"

EXTRACTDIR == "extracted"

\* working = Path(tmp_dir) / "working.asar" of the batch patch
WORKING == "tmpdir/working.asar"

Sources == {"new0", "new2", "new12", "gone"}

Paths ==
    {ARCHIVE, OUTPUT, Tmp(ARCHIVE), Tmp(OUTPUT), DESTDIR, DEST, SOURCEDIR, EXTRACTDIR,
     WORKING, Tmp(WORKING), Unpacked(ARCHIVE)}
    \cup Sources

Faults == {"none", "read", "write", "rename"}

\* output=None
NoOutput == "None"

NoCall == [op |-> "none"]

InitDisk(arch) ==
    [p \in Paths |->
        IF p = ARCHIVE THEN arch
        ELSE IF p = "new0" THEN [bytes |-> <<>>]
        ELSE IF p = "new2" THEN [bytes |-> <<NewByte, NewByte>>]
        ELSE IF p = "new12" THEN [bytes |-> [i \in 1..BigLen |-> NewByte]]
        ELSE Absent]

\* a run starts from an archive some packer wrote, or from a directory to pack
Init ==
    /\ \/ /\ \E arch \in InputArchives : disk = InitDisk(arch)
          /\ pc = "start"
       \/ /\ \E root \in SourceTrees :
                disk = [InitDisk(Absent) EXCEPT ![SOURCEDIR] = root]
          /\ pc = "pack"
    /\ disk0 = disk
    /\ a = None
    /\ call = NoCall
    /\ outcome = "none"
    /\ ret = <<>>
    /\ handles = {}

\* pack_asar(source, dest): Path(dest).write_bytes(buf.read()) opens dest for
\* writing and writes the archive into it; the operating system may fail the
\* write part-way
Pack ==
    /\ pc = "pack"
    /\ \E fault \in {"none", "write"} :
          IF fault = "write"
          THEN /\ disk' = [disk EXCEPT ![ARCHIVE] =
                               [partial |-> compress(disk[SOURCEDIR])]]
               /\ pc' = "done"
               /\ outcome' = "OSError"
          ELSE /\ disk' = [disk EXCEPT ![ARCHIVE] = compress(disk[SOURCEDIR])]
               /\ pc' = "start"
               /\ outcome' = outcome
    /\ UNCHANGED <<disk0, a, call, ret, handles>>

\* extract_asar(source, dest): with Asar.open(source) as a: a.extract(dest)
ExtractAsar(destination) ==
    /\ pc = "start"
    /\ call' = [op |-> "extract_asar", destination |-> destination]
    /\ LET opened == Asar_open(ARCHIVE, disk[ARCHIVE])
       IN IF opened = None
          THEN outcome' = "ParseError" /\ disk' = disk
          ELSE IF disk[destination] # Absent
          THEN outcome' = "FileExistsError" /\ disk' = disk
          ELSE outcome' = "ok"
               /\ disk' = [disk EXCEPT ![destination] =
                               Asar_extract_directory(opened, <<DOT>>, opened.header.files,
                                                      Absent)]
    /\ pc' = "done"
    /\ UNCHANGED <<disk0, a, ret>>
    /\ handles' = IF Asar_open(ARCHIVE, disk[ARCHIVE]) = None /\ disk[ARCHIVE] # Absent
                  THEN handles \cup {ARCHIVE}
                  ELSE handles

\* with AsarArchive.open(filename) as a:
Open ==
    /\ pc = "start"
    /\ a' = open(ARCHIVE, disk[ARCHIVE])
    /\ IF a' = None
       THEN pc' = "done" /\ outcome' = "ParseError"
       ELSE pc' = "opened" /\ outcome' = outcome
    /\ handles' = IF disk[ARCHIVE] # Absent THEN handles \cup {ARCHIVE} ELSE handles
    /\ UNCHANGED <<disk, disk0, call, ret>>

ListFiles ==
    /\ pc = "opened"
    /\ call' = [op |-> "list_files"]
    /\ IF "files" \in DOMAIN a.files
       THEN ret' = list_files(a.files) /\ outcome' = "ok"
       ELSE ret' = ret /\ outcome' = "KeyError"
    /\ pc' = "called"
    /\ UNCHANGED <<disk, disk0, a, handles>>

ExtractFile(archive_path) ==
    /\ pc = "opened"
    /\ call' = [op |-> "extract_file", archive_path |-> archive_path, destination |-> DEST]
    /\ LET info == find_file(a.files, archive_path)
       IN IF info = None
          THEN outcome' = "FileNotFoundError" /\ disk' = disk
          ELSE IF "offset" \notin DOMAIN info
          THEN outcome' = "KeyError"
               /\ disk' = [disk EXCEPT ![DESTDIR] = [dir |-> TRUE]]
          ELSE outcome' = "ok"
               /\ disk' = [disk EXCEPT ![DESTDIR] = [dir |-> TRUE],
                                       ![DEST] = [bytes |-> extract_file_to(a, info)]]
    /\ pc' = "called"
    /\ UNCHANGED <<disk0, a, ret, handles>>

\* faulty variant: the test that the destination exists forgotten
ExtractOver(destination) ==
    /\ pc = "opened"
    /\ call' = [op |-> "extract", destination |-> destination]
    /\ outcome' = "ok"
    /\ disk' = [disk EXCEPT ![destination] =
                    extract_directory(a, <<DOT>>, a.files.files, Absent)]
    /\ pc' = "called"
    /\ UNCHANGED <<disk0, a, ret, handles>>

\* a.extract(destination)
Extract(destination) ==
    /\ pc = "opened"
    /\ call' = [op |-> "extract", destination |-> destination]
    /\ IF disk[destination] # Absent
       THEN outcome' = "OSError" /\ disk' = disk
       ELSE outcome' = "ok"
            /\ disk' = [disk EXCEPT ![destination] =
                            extract_directory(a, <<DOT>>, a.files.files, Absent)]
    /\ pc' = "called"
    /\ UNCHANGED <<disk0, a, ret, handles>>

\* faulty variant: the new archive is written straight to the output path, with no
\* temporary file and no rename
ReplaceFileInPlace(archive_path, source_path, output) ==
    /\ pc = "opened"
    /\ IF ~IsRegular(disk[source_path]) \/ find_file(a.files, archive_path) = None
       THEN /\ call' = [op |-> "replace_file", archive_path |-> archive_path,
                        source_path |-> source_path, output |-> output,
                        fault |-> "none"]
            /\ outcome' = "FileNotFoundError"
            /\ disk' = disk
       ELSE LET out == IF output = NoOutput THEN a.filename ELSE output
                buf == replace_buf(a, archive_path, disk[source_path].bytes)
            IN \E fault \in Faults \ {"rename"} :
                  /\ call' = [op |-> "replace_file", archive_path |-> archive_path,
                              source_path |-> source_path, output |-> output,
                              fault |-> fault]
                  /\ CASE fault = "read" -> outcome' = "OSError" /\ disk' = disk
                       [] fault = "write" ->
                              outcome' = "OSError"
                              /\ disk' = [disk EXCEPT ![out] = [partial |-> buf]]
                       [] OTHER ->
                              outcome' = "ok"
                              /\ disk' = [disk EXCEPT ![out] = buf]
    /\ pc' = "called"
    /\ UNCHANGED <<disk0, a, ret, handles>>

\* faulty variant: the offsets are recomputed in self.files itself, not in a deep copy
ReplaceFileNoCopy(archive_path, source_path, output) ==
    /\ pc = "opened"
    /\ IF ~IsRegular(disk[source_path]) \/ find_file(a.files, archive_path) = None
       THEN /\ call' = [op |-> "replace_file", archive_path |-> archive_path,
                        source_path |-> source_path, output |-> output,
                        fault |-> "none"]
            /\ outcome' = "FileNotFoundError"
            /\ disk' = disk
       ELSE LET out == IF output = NoOutput THEN a.filename ELSE output
                new_data == disk[source_path].bytes
                buf == replace_buf(a, archive_path, new_data)
                tmp == Tmp(out)
            IN \E fault \in Faults :
                  /\ call' = [op |-> "replace_file", archive_path |-> archive_path,
                              source_path |-> source_path, output |-> output,
                              fault |-> fault]
                  /\ CASE fault = "read" -> outcome' = "OSError" /\ disk' = disk
                       [] fault = "write" ->
                              outcome' = "OSError"
                              /\ disk' = [disk EXCEPT ![tmp] = [partial |-> buf]]
                       [] fault = "rename" ->
                              outcome' = "OSError"
                              /\ disk' = [disk EXCEPT ![tmp] = buf]
                       [] OTHER ->
                              outcome' = "ok"
                              /\ disk' = [disk EXCEPT ![tmp] = Absent, ![out] = buf]
    /\ pc' = "called"
    /\ a' = IF ~IsRegular(disk[source_path]) \/ find_file(a.files, archive_path) = None
            THEN a
            ELSE [a EXCEPT !.files = update_offsets(a.files, archive_path,
                                                    Len(disk[source_path].bytes))]
    /\ UNCHANGED <<disk0, ret, handles>>

\* replace_file(archive_path, source_path, output); the fault is the step
\* at which the operating system fails the call, if any
ReplaceFile(archive_path, source_path, output) ==
    /\ pc = "opened"
    /\ IF ~IsRegular(disk[source_path]) \/ find_file(a.files, archive_path) = None
       THEN /\ call' = [op |-> "replace_file", archive_path |-> archive_path,
                        source_path |-> source_path, output |-> output,
                        fault |-> "none"]
            /\ outcome' = "FileNotFoundError"
            /\ disk' = disk
       ELSE LET out == IF output = NoOutput THEN a.filename ELSE output
                new_data == disk[source_path].bytes
                buf == replace_buf(a, archive_path, new_data)
                tmp == Tmp(out)
            IN \E fault \in Faults :
                  /\ call' = [op |-> "replace_file", archive_path |-> archive_path,
                              source_path |-> source_path, output |-> output,
                              fault |-> fault]
                  /\ CASE fault = "read" -> outcome' = "OSError" /\ disk' = disk
                       [] fault = "write" ->
                              outcome' = "OSError"
                              /\ disk' = [disk EXCEPT ![tmp] = [partial |-> buf]]
                       [] fault = "rename" ->
                              outcome' = "OSError"
                              /\ disk' = [disk EXCEPT ![tmp] = buf]
                       [] OTHER ->
                              outcome' = "ok"
                              /\ disk' = [disk EXCEPT ![tmp] = Absent, ![out] = buf]
    /\ pc' = "called"
    /\ UNCHANGED <<disk0, a, ret, handles>>

\* __exit__
Close ==
    /\ pc = "called"
    /\ a' = [a EXCEPT !.asarfile = None]
    /\ handles' = IF a.asarfile # None THEN handles \ {a.filename} ELSE handles
    /\ pc' = "done"
    /\ UNCHANGED <<disk, disk0, call, outcome, ret>>

Next ==
    \/ Pack
    \/ \E d \in {EXTRACTDIR, ARCHIVE, SOURCEDIR} : ExtractAsar(d)
    \/ Open
    \/ ListFiles
    \/ \E d \in {EXTRACTDIR, ARCHIVE, SOURCEDIR} : Extract(d)
    \/ \E p \in ArchivePaths : ExtractFile(p)
    \/ \E p \in ArchivePaths, s \in Sources, o \in {NoOutput, OUTPUT} :
           ReplaceFile(p, s, o)
    \/ Close

Spec == Init /\ [][Next]_vars

(***************************************************************************)
(* The batch patch of main.py: cmd_patch, one action per step of the       *)
(* command.  call holds the parsed config: source, dest and the plan.      *)
(***************************************************************************)
MaxPlan == 2

RECURSIVE AllPacked(_)
AllPacked(d) ==
    \A i \in 1..Len(d) :
        IF IsDir(d[i].info) THEN AllPacked(d[i].info.files) ELSE IsPacked(d[i].info)

\* the archives a batch patch is run on
PatchArchives ==
    {MakeArchive(d, TRUE) : d \in {x \in Dicts(RootNames, MaxNodes, 1) : AllPacked(x)}}

PlanEntries ==
    {[archive |-> p, source |-> src] :
        p \in {NameA, NameAB, NameA \o <<BACKSLASH>> \o NameB},
        src \in {"new0", "new2", "gone"}}

Plans == UNION {[1..n -> PlanEntries] : n \in 0..MaxPlan}

InitPatch ==
    /\ \E arch \in PatchArchives : disk = InitDisk(arch)
    /\ disk0 = disk
    /\ a = None
    /\ pc = "patch"
    /\ \E dest \in {ARCHIVE, OUTPUT}, files \in Plans :
          call = [op |-> "patch", source |-> ARCHIVE, dest |-> dest, files |-> files]
    /\ outcome = "none"
    /\ ret = 0
    /\ handles = {}

\* leaving the TemporaryDirectory block removes the directory and all in it
Cleanup(d) == [d EXCEPT ![WORKING] = Absent, ![Tmp(WORKING)] = Absent]

\* faulty variant: only the first entry's replacement file is looked at
ValidateFirst ==
    /\ pc = "patch"
    /\ IF \/ ~IsRegular(disk[call.source])
          \/ call.files = <<>>
          \/ \E i \in 1..Min(1, Len(call.files)) : ~IsRegular(disk[call.files[i].source])
       THEN pc' = "failed" /\ outcome' = "error"
       ELSE pc' = "validated" /\ outcome' = outcome
    /\ UNCHANGED <<disk, disk0, a, call, ret, handles>>

\* lines 153-173: the source archive, the list and every entry's replacement
\* file are checked; _die ends the command
Validate ==
    /\ pc = "patch"
    /\ IF \/ ~IsRegular(disk[call.source])
          \/ call.files = <<>>
          \/ \E i \in 1..Len(call.files) : ~IsRegular(disk[call.files[i].source])
       THEN pc' = "failed" /\ outcome' = "error"
       ELSE pc' = "validated" /\ outcome' = outcome
    /\ UNCHANGED <<disk, disk0, a, call, ret, handles>>

\* lines 181-183: shutil.copy2(archive_source, working), which may fail
CopyWorking ==
    /\ pc = "validated"
    /\ \E fault \in BOOLEAN :
          IF fault
          THEN pc' = "failed" /\ outcome' = "OSError" /\ disk' = Cleanup(disk)
          ELSE pc' = "applying" /\ outcome' = outcome
               /\ disk' = [disk EXCEPT ![WORKING] = disk[call.source]]
    /\ UNCHANGED <<disk0, a, call, ret, handles>>

\* lines 185-188, one turn of the loop: the working file is opened and
\* replace_file(archive_path, src, output=working) called on it
ApplyReplacement ==
    /\ pc = "applying"
    /\ ret < Len(call.files)
    /\ LET archive_path == call.files[ret + 1].archive
           src == call.files[ret + 1].source
           w == open(WORKING, disk[WORKING])
       IN IF w = None
          THEN pc' = "failed" /\ outcome' = "ParseError" /\ disk' = Cleanup(disk)
                              /\ ret' = ret
          ELSE IF ~IsRegular(disk[src]) \/ find_file(w.files, archive_path) = None
          THEN pc' = "failed" /\ outcome' = "FileNotFoundError" /\ disk' = Cleanup(disk)
                              /\ ret' = ret
          ELSE \E fault \in Faults :
                  IF fault = "none"
                  THEN /\ disk' = [disk EXCEPT
                                      ![WORKING] = replace_buf(w, archive_path, disk[src].bytes)]
                       /\ pc' = pc /\ outcome' = outcome /\ ret' = ret + 1
                  ELSE pc' = "failed" /\ outcome' = "OSError" /\ disk' = Cleanup(disk)
                                      /\ ret' = ret
    /\ handles' = IF open(WORKING, disk[WORKING]) = None
                  THEN handles \cup {WORKING}
                  ELSE handles
    /\ UNCHANGED <<disk0, a, call>>

\* lines 190-191: shutil.move(working, archive_dest) is os.rename, and when
\* that raises OSError (the temporary directory is on another file system)
\* copy2 to the destination, then unlink; the copy may fail before it opens
\* the destination or while it writes it
MoveToDest ==
    /\ pc = "applying"
    /\ ret = Len(call.files)
    /\ \E how \in {"rename", "copy", "copy_fails", "copy_cut"} :
          CASE how \in {"rename", "copy"} ->
                  /\ disk' = Cleanup([disk EXCEPT ![call.dest] = disk[WORKING]])
                  /\ pc' = "done" /\ outcome' = "ok"
            [] how = "copy_fails" ->
                  /\ disk' = Cleanup(disk)
                  /\ pc' = "failed" /\ outcome' = "OSError"
            [] OTHER ->
                  /\ disk' = Cleanup([disk EXCEPT ![call.dest] = [partial |-> disk[WORKING]]])
                  /\ pc' = "failed" /\ outcome' = "OSError"
    /\ UNCHANGED <<disk0, a, call, ret, handles>>

NextPatch == Validate \/ CopyWorking \/ ApplyReplacement \/ MoveToDest

SpecPatch == InitPatch /\ [][NextPatch]_vars

(***************************************************************************)
(* Opening files that are not well-formed archives                         *)
(***************************************************************************)
\* the text "{}": JSON, but no tree (it has no "files" key); two data bytes
EmptyObject ==
    [frame |-> <<data_size, round_up(2, data_size) + 8,
                 round_up(2, data_size) + data_size, 2>>,
     header |-> <<>>, textlen |-> 2, pad |-> round_up(2, data_size) - 2,
     data |-> <<NewByte, NewByte>>]

\* archive file c with frame fields 2 and 4 overwritten, cut to its first
\* cut bytes, its text made invalid JSON when garbled
Damage(c, f2, f4, cut, garbled) ==
    LET framed == [c EXCEPT !.frame = <<c.frame[1], f2, c.frame[3], f4>>]
        cutfile == IF cut < FileLen(c) THEN [len |-> cut] @@ framed ELSE framed
    IN IF garbled THEN [garbled |-> TRUE] @@ cutfile ELSE cutfile

\* field 2: as written, the unaligned text size + 8, 7 and 6 (header_size -1
\* and -2), one word too many; field 4: as written, one more, zero.
\* cuts: inside the frame (0, 6, 12), after it, inside the text, after the
\* text, nowhere
DamagedFrom(c) ==
    {Damage(c, f2, f4, cut, g) :
        f2 \in {c.frame[2], TextLen(c) + 8, 7, 6, c.frame[2] + 4},
        f4 \in {c.frame[4], c.frame[4] + 1, 0},
        cut \in {0, 6, 12, 16, 16 + TextLen(c) - 1, 16 + TextLen(c), FileLen(c)},
        g \in BOOLEAN}

MaxOpenNodes == 2

\* the well-formed archives the damaged ones are made from
OpenArchives ==
    {MakeArchive(d, TRUE) :
        d \in {x \in Dicts(RootNames, MaxOpenNodes, 1) : AllPacked(x)}}

\* a file that is not an archive at all
RawFile == [bytes |-> <<NewByte, NewByte>>]

InitOpen ==
    /\ \E c \in OpenArchives \cup {EmptyObject} :
          \E d \in DamagedFrom(c) \cup {RawFile} : disk = InitDisk(d)
    /\ disk0 = disk
    /\ a = None
    /\ pc = "start"
    /\ call = NoCall
    /\ outcome = "none"
    /\ ret = <<>>
    /\ handles = {}

\* with Asar.open(ARCHIVE) as a: the call of open
OpenAsar ==
    /\ pc = "start"
    /\ a' = Asar_open(ARCHIVE, disk[ARCHIVE])
    /\ IF a' = None
       THEN pc' = "done" /\ outcome' = "ParseError"
       ELSE pc' = "opened_asar" /\ outcome' = outcome
    /\ handles' = handles \cup {ARCHIVE}
    /\ UNCHANGED <<disk, disk0, call, ret>>

\* Asar.__exit__
CloseAsar ==
    /\ pc = "opened_asar"
    /\ a' = [a EXCEPT !.fp = None]
    /\ handles' = handles \ {a.path}
    /\ pc' = "done"
    /\ UNCHANGED <<disk, disk0, call, outcome, ret>>

NextOpen == Open \/ ListFiles \/ Close \/ OpenAsar \/ CloseAsar

SpecOpen == InitOpen /\ [][NextOpen]_vars

(***************************************************************************)
(* replace_file step by step, beside a reader with its own handle.  The    *)
(* reader's handle is ret: <<>> or <<[path, seen]>>, seen the content of   *)
(* the file (the inode) the handle was opened on.  Writing through a path  *)
(* changes the file that is there, and so what a handle on it reads;       *)
(* os.replace puts another file at the path, and a handle opened before    *)
(* keeps reading the file it was opened on.                                *)
(***************************************************************************)
\* the reader's handle after content is written into the file at path
WrittenUnder(path, content) ==
    IF ret # <<>> /\ ret[1].path = path
    THEN <<[ret[1] EXCEPT !.seen = content]>>
    ELSE ret

\* the output path of the replace_file call under way
CallOut == IF call.output = NoOutput THEN a.filename ELSE call.output

\* buf of the replace_file call under way (lines 118-149)
CallBuf == replace_buf(a, call.archive_path, disk[call.source_path].bytes)

\* replace_file up to buf being assembled (lines 107-149)
ReplaceBegin(archive_path, source_path, output) ==
    /\ pc = "opened"
    /\ call' = [op |-> "replace_file", archive_path |-> archive_path,
                source_path |-> source_path, output |-> output, fault |-> "none"]
    /\ IF ~IsRegular(disk[source_path]) \/ find_file(a.files, archive_path) = None
       THEN pc' = "called" /\ outcome' = "FileNotFoundError"
       ELSE pc' = "assembled" /\ outcome' = outcome
    /\ UNCHANGED <<disk, disk0, a, ret, handles>>

\* faulty variant: the new archive is written over the output path itself
TmpOpenWriteInPlace ==
    /\ pc = "assembled"
    /\ disk' = [disk EXCEPT ![CallOut] = [partial |-> CallBuf]]
    /\ ret' = WrittenUnder(CallOut, [partial |-> CallBuf])
    /\ pc' = "writing"
    /\ UNCHANGED <<disk0, a, call, outcome, handles>>

\* open(tmp, "wb") and the first bytes of f.write: tmp holds a part of buf
TmpOpenWrite ==
    /\ pc = "assembled"
    /\ disk' = [disk EXCEPT ![Tmp(CallOut)] = [partial |-> CallBuf]]
    /\ ret' = WrittenUnder(Tmp(CallOut), [partial |-> CallBuf])
    /\ pc' = "writing"
    /\ UNCHANGED <<disk0, a, call, outcome, handles>>

\* the rest of f.write, and the with-block closes tmp
TmpWriteRest ==
    /\ pc = "writing"
    /\ disk' = [disk EXCEPT ![Tmp(CallOut)] = CallBuf]
    /\ ret' = WrittenUnder(Tmp(CallOut), CallBuf)
    /\ pc' = "written"
    /\ UNCHANGED <<disk0, a, call, outcome, handles>>

\* os.replace(tmp, output)
TmpReplace ==
    /\ pc = "written"
    /\ disk' = [disk EXCEPT ![Tmp(CallOut)] = Absent, ![CallOut] = CallBuf]
    /\ outcome' = "ok"
    /\ pc' = "called"
    /\ UNCHANGED <<disk0, a, call, ret, handles>>

\* the operating system fails f.write or os.replace
ReplaceFault ==
    /\ pc \in {"writing", "written"}
    /\ call' = [call EXCEPT !.fault = IF pc = "writing" THEN "write" ELSE "rename"]
    /\ outcome' = "OSError"
    /\ pc' = "called"
    /\ UNCHANGED <<disk, disk0, a, ret, handles>>

\* another process opens the file at path
ReaderOpen(path) ==
    /\ pc \in {"opened", "assembled", "writing", "written", "called"}
    /\ disk[path] # Absent
    /\ ret' = <<[path |-> path, seen |-> disk[path]]>>
    /\ UNCHANGED <<disk, disk0, a, pc, call, outcome, handles>>

InitReaders ==
    /\ \E arch \in PatchArchives : disk = InitDisk(arch)
    /\ disk0 = disk
    /\ a = None
    /\ pc = "start"
    /\ call = NoCall
    /\ outcome = "none"
    /\ ret = <<>>
    /\ handles = {}

NextReaders ==
    \/ Open
    \/ \E p \in ArchivePaths, s \in Sources, o \in {NoOutput, OUTPUT} :
           ReplaceBegin(p, s, o)
    \/ TmpOpenWrite
    \/ TmpWriteRest
    \/ TmpReplace
    \/ ReplaceFault
    \/ \E path \in {ARCHIVE, OUTPUT} : ReaderOpen(path)
    \/ Close

SpecReaders == InitReaders /\ [][NextReaders]_vars

(***************************************************************************)
(* Extraction beside an <archive>.unpacked directory                       *)
(***************************************************************************)
\* a file of the .unpacked directory
SidecarFile == [bytes |-> <<NewByte>>]

\* what may be at <archive>.unpacked: nothing, a regular file, or a directory
\* holding copies for some of the archive paths
Sidecars ==
    {Absent, [bytes |-> <<>>]}
    \cup {[dir |-> x \cup y] :
            x \in {{}, {[name |-> NameA, node |-> SidecarFile]},
                   {[name |-> NameA,
                     node |-> [dir |-> {[name |-> NameB, node |-> SidecarFile]}]]}},
            y \in {{}, {[name |-> NameAB, node |-> SidecarFile]}}}

InitSidecar ==
    /\ \E arch \in InputArchives, side \in Sidecars :
          disk = [InitDisk(arch) EXCEPT ![Unpacked(ARCHIVE)] = side]
    /\ disk0 = disk
    /\ a = None
    /\ pc = "start"
    /\ call = NoCall
    /\ outcome = "none"
    /\ ret = <<>>
    /\ handles = {}

NextSidecar ==
    \/ \E d \in {EXTRACTDIR, ARCHIVE} : ExtractAsar(d)
    \/ Open
    \/ \E d \in {EXTRACTDIR, ARCHIVE} : Extract(d)
    \/ Close

SpecSidecar == InitSidecar /\ [][NextSidecar]_vars

(***************************************************************************)
(* Two replace_file calls in a row on one open archive object, both in     *)
(* place.  The object's file object stays on the file it was opened on:    *)
(* os.replace puts another file at the path.                               *)
(***************************************************************************)
\* the second replace_file(archive_path, source_path) on the same object,
\* after a first one that succeeded in place
ReplaceFileAgain(archive_path, source_path) ==
    /\ pc = "called"
    /\ call.op = "replace_file" /\ outcome = "ok" /\ call.output = NoOutput
    /\ IF ~IsRegular(disk[source_path]) \/ find_file(a.files, archive_path) = None
       THEN /\ call' = [op |-> "replace_file_again", first |-> call,
                        archive_path |-> archive_path,
                        source_path |-> source_path, fault |-> "none"]
            /\ outcome' = "FileNotFoundError"
            /\ disk' = disk
       ELSE LET out == a.filename
                new_data == disk[source_path].bytes
                buf == replace_buf(a, archive_path, new_data)
                tmp == Tmp(out)
            IN \E fault \in Faults :
                  /\ call' = [op |-> "replace_file_again", first |-> call,
                              archive_path |-> archive_path,
                              source_path |-> source_path, fault |-> fault]
                  /\ CASE fault = "read" -> outcome' = "OSError" /\ disk' = disk
                       [] fault = "write" ->
                              outcome' = "OSError"
                              /\ disk' = [disk EXCEPT ![tmp] = [partial |-> buf]]
                       [] fault = "rename" ->
                              outcome' = "OSError"
                              /\ disk' = [disk EXCEPT ![tmp] = buf]
                       [] OTHER ->
                              outcome' = "ok"
                              /\ disk' = [disk EXCEPT ![tmp] = Absent, ![out] = buf]
    /\ pc' = "called_again"
    /\ UNCHANGED <<disk0, a, ret, handles>>

\* __exit__ after the second call
CloseAgain ==
    /\ pc = "called_again"
    /\ a' = [a EXCEPT !.asarfile = None]
    /\ handles' = IF a.asarfile # None THEN handles \ {a.filename} ELSE handles
    /\ pc' = "done"
    /\ UNCHANGED <<disk, disk0, call, outcome, ret>>

InitTwice ==
    /\ \E arch \in InputArchives : disk = InitDisk(arch)
    /\ disk0 = disk
    /\ a = None
    /\ pc = "start"
    /\ call = NoCall
    /\ outcome = "none"
    /\ ret = <<>>
    /\ handles = {}

NextTwice ==
    \/ Open
    \/ \E p \in ArchivePaths, s \in {"new0", "new2", "gone"} : ReplaceFile(p, s, NoOutput)
    \/ \E p \in ArchivePaths, s \in {"new0", "new2", "gone"} : ReplaceFileAgain(p, s)
    \/ Close
    \/ CloseAgain

SpecTwice == InitTwice /\ [][NextTwice]_vars

(***************************************************************************)
(* Two processes, each with the archive open, each in one replace_file     *)
(* call to the same output path: pc, call and outcome are per process, and *)
(* handles holds [by, path] for the file object a process has open for     *)
(* writing, path being where the file it writes into is now.               *)
(***************************************************************************)
Writers == {1, 2}

\* where a file is once os.replace has put another file at its path
Unlinked == "(unlinked)"

\* a file two processes have written into
Mixed == [mixed |-> TRUE]

\* output, and buf (lines 118-149), of process w's call
WOut(w) == IF call[w].output = NoOutput THEN a.filename ELSE call[w].output

WBuf(w) == replace_buf(a, call[w].archive_path, disk[call[w].source_path].bytes)

\* the file object process w writes through
WHandle(w) == CHOOSE h \in handles : h.by = w

\* the disk after content is put into the file behind process w's file object
WWrite(w, content) ==
    IF WHandle(w).path = Unlinked THEN disk
    ELSE [disk EXCEPT ![WHandle(w).path] = content]

\* replace_file up to buf being assembled (lines 103-149)
WBegin(w, archive_path, source_path) ==
    /\ pc[w] = "opened"
    /\ call' = [call EXCEPT ![w] =
                   [op |-> "replace_file", archive_path |-> archive_path,
                    source_path |-> source_path, output |-> call[w].output,
                    concurrent |-> FALSE]]
    /\ IF ~IsRegular(disk[source_path]) \/ find_file(a.files, archive_path) = None
       THEN /\ pc' = [pc EXCEPT ![w] = "called"]
            /\ outcome' = [outcome EXCEPT ![w] = "FileNotFoundError"]
       ELSE /\ pc' = [pc EXCEPT ![w] = "assembled"]
            /\ outcome' = outcome
    /\ UNCHANGED <<disk, disk0, a, ret, handles>>

\* faulty variant: the output path itself is opened for writing
WOpenOutput(w) ==
    /\ pc[w] = "assembled"
    /\ disk' = [disk EXCEPT ![WOut(w)] = [bytes |-> <<>>]]
    /\ handles' = handles \cup {[by |-> w, path |-> WOut(w)]}
    /\ call' = [call EXCEPT ![w].concurrent =
                   \E v \in Writers \ {w} : pc[v] \in {"truncated", "part", "written"}]
    /\ pc' = [pc EXCEPT ![w] = "truncated"]
    /\ UNCHANGED <<disk0, a, outcome, ret>>

\* open(tmp, "wb"): the file at tmp is made, or emptied when it is there; the
\* call is concurrent when the other one is between this step and its rename
WOpenTruncate(w) ==
    /\ pc[w] = "assembled"
    /\ disk' = [disk EXCEPT ![Tmp(WOut(w))] = [bytes |-> <<>>]]
    /\ handles' = handles \cup {[by |-> w, path |-> Tmp(WOut(w))]}
    /\ call' = [call EXCEPT ![w].concurrent =
                   \E v \in Writers \ {w} : pc[v] \in {"truncated", "part", "written"}]
    /\ pc' = [pc EXCEPT ![w] = "truncated"]
    /\ UNCHANGED <<disk0, a, outcome, ret>>

\* the first bytes of f.write, at position 0 of the file
WWritePart(w) ==
    /\ pc[w] = "truncated"
    /\ disk' = WWrite(w, IF disk[WHandle(w).path] = [bytes |-> <<>>]
                         THEN [partial |-> WBuf(w)]
                         ELSE Mixed)
    /\ pc' = [pc EXCEPT ![w] = "part"]
    /\ UNCHANGED <<disk0, a, call, outcome, ret, handles>>

\* the rest of f.write, where the first bytes ended, and the file is closed
WWriteRest(w) ==
    /\ pc[w] = "part"
    /\ disk' = WWrite(w, IF disk[WHandle(w).path] = [partial |-> WBuf(w)]
                         THEN WBuf(w)
                         ELSE Mixed)
    /\ handles' = handles \ {WHandle(w)}
    /\ pc' = [pc EXCEPT ![w] = "written"]
    /\ UNCHANGED <<disk0, a, call, outcome, ret>>

\* os.replace(tmp, output): FileNotFoundError when tmp is gone; else the file
\* at tmp is now at output, and the file that was at output is at no path
WReplace(w) ==
    /\ pc[w] = "written"
    /\ IF disk[Tmp(WOut(w))] = Absent
       THEN /\ outcome' = [outcome EXCEPT ![w] = "FileNotFoundError"]
            /\ UNCHANGED <<disk, handles>>
       ELSE /\ outcome' = [outcome EXCEPT ![w] = "ok"]
            /\ disk' = [disk EXCEPT ![Tmp(WOut(w))] = Absent,
                                    ![WOut(w)] = disk[Tmp(WOut(w))]]
            /\ handles' = {[h EXCEPT !.path = IF h.path = Tmp(WOut(w)) THEN WOut(w)
                                              ELSE IF h.path = WOut(w) THEN Unlinked
                                              ELSE h.path] : h \in handles}
    /\ pc' = [pc EXCEPT ![w] = "called"]
    /\ UNCHANGED <<disk0, a, call, ret>>

InitWriters ==
    /\ \E arch \in OpenArchives : disk = InitDisk(arch)
    /\ disk0 = disk
    /\ a = open(ARCHIVE, disk[ARCHIVE])
    /\ pc = [w \in Writers |-> "opened"]
    /\ \E output \in {NoOutput, OUTPUT} :
          call = [w \in Writers |-> [op |-> "none", output |-> output,
                                     concurrent |-> FALSE]]
    /\ outcome = [w \in Writers |-> "none"]
    /\ ret = <<>>
    /\ handles = {}

NextWriters ==
    \E w \in Writers :
        \/ \E p \in ArchivePaths, s \in {"new2", "gone"} : WBegin(w, p, s)
        \/ WOpenTruncate(w)
        \/ WWritePart(w)
        \/ WWriteRest(w)
        \/ WReplace(w)

SpecWriters == InitWriters /\ [][NextWriters]_vars

(***************************************************************************)
(* Extraction of headers with arbitrary entry names.  Paths are strings as *)
(* the code builds them, and disk[ROOT] is the tree of the directory "/",  *)
(* in which the destination "/d" is to be made.                            *)
(***************************************************************************)
DOTDOT == <<46, 46>>

ROOT == "/"

\* the destination "/d", and the name of its directory in "/"
DestinationName == <<100>>

DestinationPath == <<SLASH>> \o DestinationName

\* os.path.join(p, q), and p / q of pathlib: an absolute q replaces p
os_path_join(p, q) ==
    IF q # <<>> /\ Head(q) = SLASH THEN q ELSE p \o <<SLASH>> \o q

\* the components the operating system walks: no empty ones, no "."
components(path) ==
    SelectSeq(split(path, <<>>), LAMBDA seg : seg # <<>> /\ seg # DOT)

\* the walk from the directory at cur: every component is looked up in a
\* directory, ".." is its parent ("/" is its own parent); the place reached
\* as [loc], or None when a component before the last is no directory
RECURSIVE walk_path(_, _, _)
walk_path(fs, segs, cur) ==
    IF segs = <<>> THEN [loc |-> cur]
    ELSE IF ~IsDirectory(FsGet(fs, cur)) THEN None
    ELSE IF Head(segs) = DOTDOT
    THEN walk_path(fs, Tail(segs),
                   IF cur = <<>> THEN <<>> ELSE SubSeq(cur, 1, Len(cur) - 1))
    ELSE walk_path(fs, Tail(segs), Append(cur, Head(segs)))

locate(fs, path) == walk_path(fs, components(path), <<>>)

\* os.path.exists(path)
exists(fs, path) ==
    /\ locate(fs, path) # None
    /\ FsGet(fs, locate(fs, path).loc) \notin {Absent}
    /\ "symlink" \notin DOMAIN FsGet(fs, locate(fs, path).loc)

\* os.makedirs(path) and mkdir(parents=True, exist_ok=True) from the
\* directory at cur: the missing directories are made one after the other;
\* st is [fs, err], the tree and the exception raised so far
RECURSIVE makedirs(_, _, _)
makedirs(st, segs, cur) ==
    IF st.err # "none" \/ segs = <<>> THEN st
    ELSE IF Head(segs) = DOTDOT
    THEN makedirs(st, Tail(segs),
                  IF cur = <<>> THEN <<>> ELSE SubSeq(cur, 1, Len(cur) - 1))
    ELSE LET next == Append(cur, Head(segs))
             node == FsGet(st.fs, next)
         IN IF node = Absent
            THEN makedirs([st EXCEPT !.fs = FsSet(st.fs, next, [dir |-> {}])],
                          Tail(segs), next)
            ELSE IF IsDirectory(node) THEN makedirs(st, Tail(segs), next)
            ELSE [st EXCEPT !.err = "FileExistsError"]

\* open(path, "wb") and the write, shutil.copyfile and write_bytes: the file
\* is made or overwritten where the path leads, through a symlink at its end
write_bytes(st, path, content) ==
    IF st.err # "none" THEN st
    ELSE LET at == locate(st.fs, path)
         IN IF at = None THEN [st EXCEPT !.err = "FileNotFoundError"]
            ELSE LET node == FsGet(st.fs, at.loc)
                     to == IF "symlink" \in DOMAIN node
                           THEN locate(st.fs, node.symlink)
                           ELSE at
                 IN IF to = None THEN [st EXCEPT !.err = "FileNotFoundError"]
                    ELSE IF IsDirectory(FsGet(st.fs, to.loc))
                    THEN [st EXCEPT !.err = "IsADirectoryError"]
                    ELSE [st EXCEPT !.fs = FsSet(st.fs, to.loc, content)]

\* __copy_extracted, with the destination
copy_extracted_at(self, path, destination, st) ==
    LET unpacked_dir == disk[Unpacked(self.filename)]
    IN IF ~IsDirectory(unpacked_dir) THEN st
       ELSE LET source_path == walk_path(unpacked_dir, components(path), <<>>)
            IN IF source_path = None THEN st
               ELSE IF FsGet(unpacked_dir, source_path.loc) = Absent THEN st
               ELSE write_bytes(st, os_path_join(destination, path),
                                FsGet(unpacked_dir, source_path.loc))

\* __extract_file, with the destination
extract_file_at(self, path, fileinfo, destination, st) ==
    IF st.err # "none" THEN st
    ELSE IF "offset" \notin DOMAIN fileinfo
    THEN copy_extracted_at(self, path, destination, st)
    ELSE write_bytes(st, os_path_join(destination, path),
                     [bytes |-> extract_file_to(self, fileinfo)])

RECURSIVE extract_directory_at(_, _, _, _, _)
RECURSIVE extract_items_at(_, _, _, _, _)
\* the loop of __extract_directory, with the destination:
\* item_path = os.path.join(path, name)
extract_items_at(self, path, files, destination, st) ==
    IF files = <<>> \/ st.err # "none" THEN st
    ELSE LET name == Head(files).name
             contents == Head(files).info
             item_path == os_path_join(path, name)
             first == IF IsDir(contents)
                      THEN extract_directory_at(self, item_path, contents.files,
                                                destination, st)
                      ELSE extract_file_at(self, item_path, contents, destination, st)
         IN extract_items_at(self, path, Tail(files), destination, first)

\* __extract_directory, with the destination: os.makedirs unless
\* os.path.exists(os.path.join(destination, path))
extract_directory_at(self, path, files, destination, st) ==
    LET destination_path == os_path_join(destination, path)
        made == IF exists(st.fs, destination_path) THEN st
                ELSE makedirs(st, components(destination_path), <<>>)
    IN extract_items_at(self, path, files, destination, made)

\* Asar._copy_unpacked_file, with the destination
Asar_copy_unpacked_file_at(self, source, destination, st) ==
    LET unpacked_dir == disk[Unpacked(self.path)]
    IN IF ~IsDirectory(unpacked_dir) THEN st
       ELSE LET src == walk_path(unpacked_dir, components(source), <<>>)
            IN IF src = None THEN st
               ELSE IF FsGet(unpacked_dir, src.loc) = Absent THEN st
               ELSE write_bytes(st, os_path_join(destination, source),
                                FsGet(unpacked_dir, src.loc))

\* Asar._extract_file, with the destination
Asar_extract_file_at(self, source, info, destination, st) ==
    IF st.err # "none" THEN st
    ELSE IF "offset" \notin DOMAIN info
    THEN Asar_copy_unpacked_file_at(self, source, destination, st)
    ELSE write_bytes(st, os_path_join(destination, source),
                     [bytes |-> read(self.fp, self.base_offset + int(info.offset),
                                     info.size)])

\* Asar._extract_link, with the destination: the link is made where
\* (destination / source).resolve() leads and points to destination / link;
\* what is there already is unlinked, which a directory refuses
Asar_extract_link_at(source, link, destination, st) ==
    IF st.err # "none" THEN st
    ELSE LET at == locate(st.fs, os_path_join(destination, source))
             link_to == os_path_join(destination, link)
         IN IF at = None THEN [st EXCEPT !.err = "FileNotFoundError"]
            ELSE LET node == FsGet(st.fs, at.loc)
                     dest_filename == IF "symlink" \in DOMAIN node
                                      THEN locate(st.fs, node.symlink)
                                      ELSE at
                 IN IF dest_filename = None
                    THEN [st EXCEPT !.err = "FileNotFoundError"]
                    ELSE IF IsDirectory(FsGet(st.fs, dest_filename.loc))
                    THEN [st EXCEPT !.err = "IsADirectoryError"]
                    ELSE [st EXCEPT !.fs = FsSet(st.fs, dest_filename.loc,
                                                 [symlink |-> link_to])]

RECURSIVE Asar_extract_directory_at(_, _, _, _, _)
RECURSIVE Asar_extract_items_at(_, _, _, _, _)
\* the loop of Asar._extract_directory, with the destination:
\* item_path = f"{source}/{name}"
Asar_extract_items_at(self, source, files, destination, st) ==
    IF files = <<>> \/ st.err # "none" THEN st
    ELSE LET name == Head(files).name
             info == Head(files).info
             item_path == source \o <<SLASH>> \o name
             first == IF IsDir(info)
                      THEN Asar_extract_directory_at(self, item_path, info.files,
                                                     destination, st)
                      ELSE IF "link" \in DOMAIN info
                      THEN Asar_extract_link_at(item_path, info.link, destination, st)
                      ELSE Asar_extract_file_at(self, item_path, info, destination, st)
         IN Asar_extract_items_at(self, source, Tail(files), destination, first)

\* Asar._extract_directory, with the destination:
\* dest = (destination / source).resolve(); dest.mkdir(parents=True, exist_ok=True)
Asar_extract_directory_at(self, source, files, destination, st) ==
    LET made == makedirs(st, components(os_path_join(destination, source)), <<>>)
    IN Asar_extract_items_at(self, source, files, destination, made)

\* entry names a header may hold: "..", "/b" and "../b", beside the plain "a"
HostileNames == {DOTDOT, <<SLASH>> \o NameB, DOTDOT \o <<SLASH>> \o NameB}

\* a packed File, a Symlink to "t", an empty directory, a directory of one File
NamedNodes ==
    {[size |-> 1, offset |-> <<DIGIT0>>], [link |-> <<116>>], [files |-> <<>>],
     [files |-> <<[name |-> <<99>>, info |-> [size |-> 1, offset |-> <<DIGIT0>>]]>>]}

\* one entry of a hostile name, alone or before or after an entry named "a";
\* no two entries of such a header lead to one place
NamedDicts ==
    UNION {{<<[name |-> h, info |-> i]>>} \cup
           UNION {{<<[name |-> h, info |-> i], [name |-> NameA, info |-> j]>>,
                   <<[name |-> NameA, info |-> j], [name |-> h, info |-> i]>>}
                  : j \in NamedNodes}
          : h \in HostileNames, i \in NamedNodes}

InitNames ==
    /\ \E d \in NamedDicts :
          disk = [p \in Paths \cup {ROOT} |->
                     IF p = ROOT THEN [dir |-> {}]
                     ELSE InitDisk(MakeArchive(d, FALSE))[p]]
    /\ disk0 = disk
    /\ a = None
    /\ pc = "start"
    /\ call = NoCall
    /\ outcome = "none"
    /\ ret = <<>>
    /\ handles = {}

\* the outcome and the disk after an extraction that ended as st
Extracted(st) ==
    /\ outcome' = IF st.err = "none" THEN "ok" ELSE st.err
    /\ disk' = [disk EXCEPT ![ROOT] = st.fs]

\* extract_asar(ARCHIVE, destination), destination a path of the tree of "/"
ExtractAsarTo(destination) ==
    /\ pc = "start"
    /\ call' = [op |-> "extract_asar", destination |-> destination]
    /\ LET opened == Asar_open(ARCHIVE, disk[ARCHIVE])
       IN IF opened = None
          THEN outcome' = "ParseError" /\ disk' = disk
          ELSE IF exists(disk[ROOT], destination)
          THEN outcome' = "FileExistsError" /\ disk' = disk
          ELSE Extracted(Asar_extract_directory_at(opened, DOT, opened.header.files,
                             destination, [fs |-> disk[ROOT], err |-> "none"]))
    /\ pc' = "done"
    /\ UNCHANGED <<disk0, a, ret, handles>>

\* a.extract(destination), destination a path of the tree of "/"
ExtractTo(destination) ==
    /\ pc = "opened"
    /\ call' = [op |-> "extract", destination |-> destination]
    /\ IF exists(disk[ROOT], destination)
       THEN outcome' = "OSError" /\ disk' = disk
       ELSE Extracted(extract_directory_at(a, DOT, a.files.files, destination,
                                           [fs |-> disk[ROOT], err |-> "none"]))
    /\ pc' = "called"
    /\ UNCHANGED <<disk0, a, ret, handles>>

NextNames ==
    \/ \E d \in {DestinationPath, <<SLASH>>} : ExtractAsarTo(d)
    \/ Open
    \/ \E d \in {DestinationPath, <<SLASH>>} : ExtractTo(d)
    \/ Close

SpecNames == InitNames /\ [][NextNames]_vars

(***************************************************************************)
(* Vocabulary of the properties                                            *)
(***************************************************************************)
Range(seq) == {seq[i] : i \in 1..Len(seq)}

\* every node of a dict with its archive path
RECURSIVE AllNodes(_, _)
AllNodes(prefix, d) ==
    UNION {LET path == JoinPath(prefix, d[i].name)
           IN {[path |-> path, info |-> d[i].info]}
              \cup (IF IsDir(d[i].info) THEN AllNodes(path, d[i].info.files) ELSE {})
           : i \in 1..Len(d)}

PackedPaths(files) == {n.path : n \in {m \in AllNodes(<<>>, files.files) : IsPacked(m.info)}}

\* the node a '/'-separated path names, or None
NodeAt(files, path) ==
    LET hit == {n \in AllNodes(<<>>, files.files) : n.path = path}
    IN IF hit = {} THEN None ELSE (CHOOSE n \in hit : TRUE).info

\* the run packed its archive from a directory
Packed == disk0[ARCHIVE] = Absent /\ pc # "pack"

\* the archive file the run opened: the one it began with or the one it packed
Archive0 == IF disk0[ARCHIVE] = Absent THEN compress(disk0[SOURCEDIR]) ELSE disk0[ARCHIVE]

\* the disk when the archive was opened, before the call
Before == [disk0 EXCEPT ![ARCHIVE] = Archive0]

\* the archive object the run opened, as it was opened
Orig == open(ARCHIVE, Archive0)

Replaced == call.op = "replace_file" /\ outcome = "ok"

OutPath == IF call.output = NoOutput THEN ARCHIVE ELSE call.output

\* the output archive, re-opened
Reopened == open(OutPath, disk[OutPath])

Target == normalize(call.archive_path)

\* C1: after a successful replace_file(p, src, output), every packed File
\* other than the target extracts from the re-opened output archive to the
\* bytes it extracts to from the original archive.
C1_ReplacePreservesOthers ==
    Replaced =>
        LET o == Orig
            r == Reopened
        IN /\ r # None
           /\ \A q \in PackedPaths(o.files) \ {Target} :
                 /\ IsPacked(NodeAt(r.files, q))
                 /\ find_file(r.files, q) = NodeAt(r.files, q)
                 /\ extract_file_to(r, find_file(r.files, q))
                      = extract_file_to(o, find_file(o.files, q))

\* a replacement that moved the base offset and shifted a later file
C1_Witness ==
    /\ Replaced
    /\ LET o == Orig
           r == Reopened
       IN /\ r.baseoffset # o.baseoffset
          /\ \E q \in PackedPaths(o.files) \ {Target} :
                /\ NodeAt(r.files, q).offset # NodeAt(o.files, q).offset
                /\ Len(extract_file_to(o, NodeAt(o.files, q))) > 0

\* C2: after a successful replace_file(p, src, output) for a path p that
\* resolves to a packed File, the re-opened output records size(p) = len(src)
\* and p extracts to the bytes of src.
C2_TargetReplaced ==
    (Replaced /\ IsPacked(find_file(Orig.files, call.archive_path))) =>
        LET r == Reopened
            info == find_file(r.files, call.archive_path)
        IN /\ r # None
           /\ IsPacked(info)
           /\ info.size = Len(disk0[call.source_path].bytes)
           /\ extract_file_to(r, info) = disk0[call.source_path].bytes

\* C3: when replace_file fails before its final rename, the file at the
\* destination path is what it was before the call.
C3_FailureLeavesDestination ==
    (call.op = "replace_file" /\ outcome \notin {"none", "ok"}) =>
        disk[OutPath] = Before[OutPath]

\* a fault while the temporary file was being written, replacing in place
C3_Witness ==
    /\ call.op = "replace_file"
    /\ outcome = "OSError"
    /\ call.fault = "write"
    /\ call.output = NoOutput
    /\ "partial" \in DOMAIN disk[Tmp(ARCHIVE)]

\* C9: replace_file and extract_file on an archive path that names no
\* non-Directory node (a segment is missing, an intermediate segment is not a
\* Directory, or the path names a Directory) raise FileNotFoundError and
\* leave the disk as it was.
NamesNoFile(files, p) ==
    \/ NodeAt(files, normalize(p)) = None
    \/ IsDir(NodeAt(files, normalize(p)))

C9_NotFound ==
    (call.op \in {"replace_file", "extract_file"} /\ NamesNoFile(Orig.files, call.archive_path)) =>
        /\ outcome = "FileNotFoundError"
        /\ disk = Before

\* replace_file on a path that names a Directory, the replacement present
C9_Witness ==
    /\ call.op = "replace_file"
    /\ IsRegular(disk0[call.source_path])
    /\ NodeAt(Orig.files, call.archive_path) # None
    /\ IsDir(NodeAt(Orig.files, call.archive_path))
    /\ outcome = "FileNotFoundError"

NonDirPaths(files) == {n.path : n \in {m \in AllNodes(<<>>, files.files) : ~IsDir(m.info)}}

FilePaths(files) ==
    {n.path : n \in {m \in AllNodes(<<>>, files.files) : "size" \in DOMAIN m.info}}

Ascending(seq) == \A i \in 1..(Len(seq) - 1) : StrLess(seq[i], seq[i + 1])

\* C10 as stated: list_files returns, ascending and without duplicates,
\* exactly the paths of the File nodes; no path of a node that is not a File.
C10_ListsExactlyFiles ==
    (call.op = "list_files") =>
        /\ Ascending(ret)
        /\ Range(ret) = FilePaths(Orig.files)

\* C10 amended: list_files returns, ascending and without duplicates,
\* exactly the paths of the nodes that are not Directories: Files (packed or
\* unpacked) and Symlinks.
C10_ListsNonDirectories ==
    (call.op = "list_files") =>
        /\ Ascending(ret)
        /\ Range(ret) = NonDirPaths(Orig.files)

\* a header whose key order is not sorted, with a Directory and a Symlink
C10_Witness ==
    /\ call.op = "list_files"
    /\ Len(ret) >= 2
    /\ walk_files(<<>>, Orig.files.files) # ret
    /\ \E n \in AllNodes(<<>>, Orig.files.files) : IsDir(n.info)
    /\ \E n \in AllNodes(<<>>, Orig.files.files) : "link" \in DOMAIN n.info

\* every node of a tree on disk that is not a directory, with its path
RECURSIVE LeavesOf(_, _)
LeavesOf(prefix, node) ==
    IF ~IsDirectory(node) THEN {}
    ELSE UNION {LET path == Append(prefix, e.name)
                IN IF IsDirectory(e.node) THEN LeavesOf(path, e.node)
                   ELSE {[path |-> path, node |-> e.node]}
                : e \in node.dir}

ExtractedAll ==
    /\ Packed
    /\ call.op \in {"extract", "extract_asar"}
    /\ call.destination = EXTRACTDIR

\* C7: packing a directory tree of regular files and subdirectories and then
\* extracting the archive into a directory that did not exist, with either
\* extractor, succeeds and leaves there every file of the tree at its relative
\* path with its bytes, and no other file.
C7_RoundTrip ==
    ExtractedAll =>
        /\ outcome = "ok"
        /\ LeavesOf(<<>>, disk[EXTRACTDIR]) = LeavesOf(<<>>, disk0[SOURCEDIR])

\* a tree with a file at the root and a different, later file in a
\* subdirectory, extracted by extract_asar
C7_Witness ==
    /\ ExtractedAll
    /\ call.op = "extract_asar"
    /\ \E f, g \in LeavesOf(<<>>, disk[EXTRACTDIR]) :
          /\ Len(f.path) = 1
          /\ Len(g.path) = 2
          /\ f.node.bytes # <<>>
          /\ g.node.bytes # <<>>
          /\ f.node.bytes # g.node.bytes

\* the paths of the packed Files of header h in the depth-first walk of dict d
WalkPacked(h, d) == SelectSeq(walk_files(<<>>, d), LAMBDA p : IsPacked(NodeAt(h, p)))

\* along the paths, the first offset is 0 and each next one is the previous
\* offset plus the previous size
Contiguous(h, paths) ==
    \A i \in 1..Len(paths) :
        int(NodeAt(h, paths[i]).offset) =
            IF i = 1 THEN 0
            ELSE int(NodeAt(h, paths[i - 1]).offset) + NodeAt(h, paths[i - 1]).size

JustPacked == Packed /\ pc = "start"

PatchFailed == call.op = "patch" /\ pc = "failed"

PatchDone == call.op = "patch" /\ pc = "done" /\ outcome = "ok"

\* the plan's entry i is the last one that names its archive path
LastFor(i) ==
    \A j \in (i + 1)..Len(call.files) :
        normalize(call.files[j].archive) # normalize(call.files[i].archive)

SomeMissing ==
    /\ call.op = "patch"
    /\ \E i \in 1..Len(call.files) : ~IsRegular(disk0[call.files[i].source])

\* C6: when a replacement file of the plan is missing, the batch patch ends
\* in an error at validation, and at no moment of the run has the disk
\* changed: no working copy, no temporary file, no replacement applied.
C6_ValidatedBeforeWrite ==
    SomeMissing =>
        /\ disk = disk0
        /\ ret = 0
        /\ pc = "patch" \/ (pc = "failed" /\ outcome = "error")

\* a plan whose first entry could have been applied and whose second entry
\* names a missing replacement file, ended
C6_Witness ==
    /\ SomeMissing
    /\ pc = "failed"
    /\ Len(call.files) = 2
    /\ IsRegular(disk0[call.files[1].source])
    /\ find_file(disk0[call.source].header, call.files[1].archive) # None
    /\ ~IsRegular(disk0[call.files[2].source])

ExtractCalled == call.op \in {"extract", "extract_asar"}

Bytes(c) == read(c, 0, FileLen(c))

\* the start of the data region by the frame: 16 + round_up(header_string_size, 4)
FrameBase(c) == 16 + round_up(c.frame[4], 4)

\* the File node an archive path names in the opened archive, or None
FileAt(p) ==
    LET info == NodeAt(Orig.files, normalize(p))
    IN IF info # None /\ "size" \in DOMAIN info THEN info ELSE None

\* C12: extract_file on an archive path that resolves to a File (packed or
\* unpacked) succeeds, makes the destination's parent directory, and writes a
\* file of exactly size bytes: the archive's bytes in
\* [base_offset + offset, base_offset + offset + size).
C12_ExtractFileWrites ==
    (call.op = "extract_file" /\ FileAt(call.archive_path) # None) =>
        LET info == FileAt(call.archive_path)
        IN /\ outcome = "ok"
           /\ disk[DESTDIR] # Absent
           /\ "bytes" \in DOMAIN disk[DEST]
           /\ Len(disk[DEST].bytes) = info.size
           /\ "offset" \in DOMAIN info
           /\ disk[DEST].bytes =
                 SubSeq(Bytes(Archive0),
                        FrameBase(Archive0) + int(info.offset) + 1,
                        FrameBase(Archive0) + int(info.offset) + info.size)

\* the frame and padding relations of an archive file
WellFramed(c) ==
    LET header_string_size == c.frame[4]
        aligned_size == CHOOSE n \in header_string_size..(header_string_size + 3) :
                            n % 4 = 0
    IN /\ c.frame[1] = 4
       /\ c.frame[2] = aligned_size + 8
       /\ c.frame[3] = aligned_size + 4
       /\ header_string_size = JsonLenNode(c.header)
       /\ TextLen(c) = header_string_size
       /\ c.pad = aligned_size - header_string_size
       /\ \A i \in 1..c.pad : Bytes(c)[16 + header_string_size + i] = 0
       /\ Len(c.data) > 0 => Bytes(c)[16 + aligned_size + 1] = c.data[1]

\* C13: the archive pack wrote and the archive replace_file wrote have the
\* frame (4, aligned_size + 8, aligned_size + 4, header_string_size) with
\* aligned_size the least multiple of 4 not below header_string_size, the tree
\* text padded with zero bytes to aligned_size, and the data region starting
\* at 16 + aligned_size.
C13_FrameRelations ==
    /\ JustPacked => WellFramed(disk[ARCHIVE])
    /\ Replaced => WellFramed(disk[OutPath])

\* a replacement that changed the padding, to none at all
C13_Witness ==
    /\ Replaced
    /\ disk[OutPath].pad = 0
    /\ Archive0.pad # 0
    /\ Len(disk[OutPath].data) > 0

\* C14: for every archive that opens, the base offset open computes is
\* 16 + round_up(header_string_size, 4) with header_string_size the fourth
\* frame field, whatever the other frame fields are, and AsarArchive.open and
\* Asar.open compute the same base offset for the same file.
C14_BaseFromStringSize ==
    LET c == disk[ARCHIVE]
        x == open(ARCHIVE, c)
        y == Asar_open(ARCHIVE, c)
    IN /\ pc = "opened" => a.baseoffset = FrameBase(c)
       /\ pc = "opened_asar" => a.base_offset = FrameBase(c)
       /\ (pc \in {"opened", "opened_asar"} /\ x # None /\ y # None)
              => x.baseoffset = y.base_offset

\* a header that is a tree: a Directory node
IsTree(h) == DOMAIN h = {"files"}

\* shorter than its frame, tree bytes truncated, or tree serialization invalid
BadInput(c) ==
    \/ ~IsArchive(c)
    \/ FileLen(c) < 16
    \/ FileLen(c) < 16 + TextLen(c)
    \/ "garbled" \in DOMAIN c
    \/ ~IsTree(c.header)

\* C15: opening an input that is shorter than its frame, whose tree bytes are
\* truncated, or whose tree serialization is invalid never returns an archive
\* object and ends in an error outcome.
C15_BadInputFails ==
    BadInput(disk[ARCHIVE]) =>
        /\ pc \notin {"opened", "opened_asar", "called"}
        /\ pc = "done" => outcome = "ParseError"

\* C17: every handle open opened is closed once the with-block is over or
\* open has failed.
C17_HandlesClosed == pc = "done" => handles = {}

\* the complete new archive of the replace_file call
NewArchive ==
    replace_buf(open(ARCHIVE, disk0[ARCHIVE]), call.archive_path,
                disk0[call.source_path].bytes)

\* C16: while a replace_file call runs, a reader with its own handle on the
\* output path reads the complete old archive or the complete new archive.
C16_ReaderSeesWhole ==
    (call.op = "replace_file" /\ ret # <<>> /\ ret[1].path = OutPath) =>
        \/ ret[1].seen = disk0[OutPath]
        \/ outcome # "FileNotFoundError" /\ ret[1].seen = NewArchive

\* the archive was replaced in place under a reader that goes on reading the
\* old one, and the two differ
C16_Witness ==
    /\ call.op = "replace_file" /\ outcome = "ok" /\ OutPath = ARCHIVE
    /\ ret # <<>> /\ ret[1].path = ARCHIVE
    /\ ret[1].seen = disk0[ARCHIVE]
    /\ disk[ARCHIVE] = NewArchive
    /\ NewArchive # disk0[ARCHIVE]

\* C18: after replace_file or the batch patch has returned, with success or
\* with a failure, no temporary file the call made is left: not the
\* "<output>.tmp" file, not the working copy.
C18_NoTemporaryLeft ==
    /\ (call.op = "replace_file" /\ pc \in {"called", "done"}) =>
           disk[Tmp(OutPath)] = Absent
    /\ (PatchDone \/ PatchFailed) =>
           disk[WORKING] = Absent /\ disk[Tmp(WORKING)] = Absent

\* C19: packing never shows a partial archive: from the moment pack_asar is
\* called, also after a write fault, the destination path is absent (or holds
\* what it held) or holds the complete new archive.
C19_PackAtomic ==
    (disk0[ARCHIVE] = Absent /\ call = NoCall) =>
        \/ disk[ARCHIVE] = disk0[ARCHIVE]
        \/ disk[ARCHIVE] = compress(disk0[SOURCEDIR])

\* the copy of archive path p under <archive>.unpacked, or Absent
SidecarOf(p) ==
    IF IsDirectory(disk0[Unpacked(ARCHIVE)])
    THEN FsGet(disk0[Unpacked(ARCHIVE)], split(p, <<>>))
    ELSE Absent

\* an unpacked File: a size and no offset
IsUnpackedFile(info) == "size" \in DOMAIN info /\ "offset" \notin DOMAIN info

C21_ExtractRecreatesTree ==
    (ExtractCalled /\ call.destination = EXTRACTDIR) =>
        /\ outcome = "ok"
        /\ \A n \in AllNodes(<<>>, Orig.files.files) :
              LET at == FsGet(disk[EXTRACTDIR], split(n.path, <<>>))
              IN /\ IsDir(n.info) => IsDirectory(at)
                 /\ IsPacked(n.info) => IsRegular(at)
                 /\ (IsUnpackedFile(n.info) /\ SidecarOf(n.path) # Absent) =>
                        at = SidecarOf(n.path)
                 /\ "link" \in DOMAIN n.info => "symlink" \in DOMAIN at

\* C22: replace_file normalizes the archive path in every step: called with
\* a path written with backslashes it writes the archive it writes for the
\* same path written with '/'.
C22_BackslashSameOutput ==
    Replaced =>
        disk[OutPath] = replace_buf(Orig, normalize(call.archive_path),
                                    disk0[call.source_path].bytes)

\* the paths ArchiveListing.from_archive collects, in its order
Collected == LET entries == collect(Orig.files.files, <<>>)
             IN [i \in 1..Len(entries) |-> entries[i].path]

\* C23: list_files returns the paths in the order of the depth-first
\* traversal that takes each directory's children in name-sorted order: the
\* sequence ArchiveListing.from_archive collects.
C23_ListOrderIsDepthFirst == (call.op = "list_files") => ret = Collected

\* C24: replace_file does not change the open archive object: after the
\* call, successful or failed, its header and its base offset are what they
\* were when it was opened; and with an output path other than the archive's
\* own, the archive file is what it was.
C24_ObjectUntouched ==
    (call.op = "replace_file") =>
        /\ a.files = Orig.files
        /\ a.baseoffset = Orig.baseoffset
        /\ OutPath # ARCHIVE => disk[ARCHIVE] = Before[ARCHIVE]

\* a replacement of another size written to another path: the new header
\* differs from the one the object holds
C24_Witness ==
    /\ Replaced
    /\ pc = "called"
    /\ OutPath = OUTPUT
    /\ Reopened.files # a.files
    /\ disk[OUTPUT] # disk[ARCHIVE]

\* C25: extract_file ends by writing the destination file or with the
\* not-found error, whatever the header and the path: a path that names a
\* Symlink gives not-found, a path that names an unpacked File gives no
\* missing-field error.
C25_ExtractFileOrNotFound ==
    (call.op = "extract_file") =>
        LET node == NodeAt(Orig.files, normalize(call.archive_path))
        IN /\ outcome \in {"ok", "FileNotFoundError"}
           /\ outcome = "ok" => "bytes" \in DOMAIN disk[DEST]
           /\ (node # None /\ "link" \in DOMAIN node) => outcome = "FileNotFoundError"

\* the node replace_file's lookup finds for the call's archive path
TargetNode == find_file(Orig.files, call.archive_path)

\* a replace_file call, no operating-system fault, whose replacement file
\* exists and whose target is an unpacked File or a Symlink
DroppedCall ==
    /\ call.op = "replace_file"
    /\ call.fault = "none"
    /\ IsRegular(Before[call.source_path])
    /\ TargetNode # None
    /\ "offset" \notin DOMAIN TargetNode

ReplacedTwice ==
    /\ call.op = "replace_file_again" /\ outcome = "ok"
    /\ normalize(call.first.archive_path) # normalize(call.archive_path)
    /\ IsPacked(find_file(Orig.files, call.first.archive_path))
    /\ IsPacked(find_file(Orig.files, call.archive_path))

\* C27: after two successive in-place replace_file calls on the same open
\* object for two different paths p1 then p2, the archive has p2's
\* replacement and p1's original content: the first replacement is lost.
C27_FirstReplacementLost ==
    ReplacedTwice =>
        LET r == open(ARCHIVE, disk[ARCHIVE])
            first == find_file(r.files, call.first.archive_path)
            second == find_file(r.files, call.archive_path)
        IN /\ r # None
           /\ IsPacked(first) /\ IsPacked(second)
           /\ extract_file_to(r, second) = disk0[call.source_path].bytes
           /\ extract_file_to(r, first)
                  = extract_file_to(Orig, find_file(Orig.files, call.first.archive_path))


(***************************************************************************)
(* C28                                                                     *)
(***************************************************************************)
\* process v's call has assembled the archive it is going to write
WAssembled(v) ==
    /\ call[v].op = "replace_file"
    /\ IsRegular(disk[call[v].source_path])
    /\ find_file(a.files, call[v].archive_path) # None

\* the file at the output path is the old one or one of the new archives
OutputComplete ==
    \A w \in Writers :
        \/ disk[WOut(w)] = disk0[WOut(w)]
        \/ \E v \in Writers : WAssembled(v) /\ disk[WOut(w)] = WBuf(v)

\* no call opened the temporary file while the other call was between its
\* open and its rename
Serialized == \A w \in Writers : ~call[w].concurrent

\* C28 as stated: under every interleaving of the open-truncate, write and
\* rename steps of two replace_file calls to one output path, the file at the
\* output path is a complete archive, the old one or one of the two new ones
C28_AlwaysComplete == OutputComplete

\* C28, amended: as long as the two calls to one output path do not overlap,
\* the file at the output path is a complete archive, the old one or one of
\* the two new ones
C28_CompleteWhenSerialized == Serialized => OutputComplete

C28_Witness ==
    /\ Serialized
    /\ \A w \in Writers : pc[w] = "called" /\ outcome[w] = "ok"
    /\ WBuf(1) # WBuf(2)
    /\ disk[WOut(2)] = WBuf(2)
    /\ disk[WOut(2)] # disk0[WOut(2)]


(***************************************************************************)
(* C29                                                                     *)
(***************************************************************************)
\* the places of every node of a tree, each as the names from its root
RECURSIVE Places(_, _)
Places(node, at) ==
    IF ~IsDirectory(node) THEN {at}
    ELSE {at} \cup UNION {Places(e.node, Append(at, e.name)) : e \in node.dir}

\* C29: every directory, file or link that extract made lies under the
\* destination directory, whatever the names of the header's entries
C29_ExtractedUnderDestination ==
    (call.op \in {"extract", "extract_asar"} /\ call.destination = DestinationPath) =>
        \A at \in Places(disk[ROOT], <<>>) \ Places(disk0[ROOT], <<>>) :
            at # <<>> /\ Head(at) = DestinationName

\* the same of AsarArchive.extract alone, and of extract_asar alone
C29_ArchiveUnderDestination ==
    call.op = "extract" => C29_ExtractedUnderDestination

C29_AsarUnderDestination ==
    call.op = "extract_asar" => C29_ExtractedUnderDestination


(***************************************************************************)
(* C30                                                                     *)
(***************************************************************************)
\* the archive replace_file makes of the output of the call, for the same
\* path and the same bytes
AppliedAgain ==
    replace_buf(Reopened, call.archive_path, disk0[call.source_path].bytes)

\* the keys of the input header are in ascending order in every directory
InputNameSorted == SortKeys(Orig.files.files) = Orig.files.files

====
